---- MODULE Spec2Model ----
(***************************************************************************)
(* A model of lib/util.c of xbps: the digest routines, the identifier and  *)
(* pattern parsers, the installed-package check, the binary-package path   *)
(* resolver and the process-wide rootdir/cachedir configuration.           *)
(*                                                                         *)
(* C strings are sequences of one-character strings (the terminating NUL   *)
(* is implicit).  A pointer that may be NULL is a sequence of length 0     *)
(* (NULL) or 1 (the pointed-to value).  malloc/strdup/vasprintf are taken  *)
(* to succeed.                                                             *)
(***************************************************************************)
EXTENDS Integers, Sequences, FiniteSets, TLC

VARIABLES errno, call, held, rootdir, cachedir, set_res, get_res,
          lastRootArg, lastCacheSet, firstRead, lazyCache

vars == <<errno, call, held, rootdir, cachedir, set_res, get_res,
          lastRootArg, lastCacheSet, firstRead, lazyCache>>

configVars == <<rootdir, cachedir, set_res, get_res,
                lastRootArg, lastCacheSet, firstRead, lazyCache>>

NULL == << >>
Ptr(v) == << v >>
Deref(p) == p[1]

-----------------------------------------------------------------------------
(* Characters.  Ascii lists the characters with codes 45..122 in order     *)
(* (codes 92 and 96 are named).                                          *)

Ascii ==
    << "-", ".", "/",
       "0", "1", "2", "3", "4", "5", "6", "7", "8", "9",
       ":", ";", "<", "=", ">", "?", "@",
       "A", "B", "C", "D", "E", "F", "G", "H", "I", "J", "K", "L", "M",
       "N", "O", "P", "Q", "R", "S", "T", "U", "V", "W", "X", "Y", "Z",
       "[", "BACKSLASH", "]", "^", "_", "BACKTICK",
       "a", "b", "c", "d", "e", "f", "g", "h", "i", "j", "k", "l", "m",
       "n", "o", "p", "q", "r", "s", "t", "u", "v", "w", "x", "y", "z" >>

OrdTable ==
    [c \in {Ascii[i] : i \in 1..Len(Ascii)} |->
        44 + (CHOOSE i \in 1..Len(Ascii) : Ascii[i] = c)]
Ord(c) == OrdTable[c]
Chr(n) == Ascii[n - 44]

ToUpper(c) == IF Ord(c) >= Ord("a") /\ Ord(c) <= Ord("z")
              THEN Chr(Ord(c) - 32) ELSE c
UpperStr(s) == [i \in 1..Len(s) |-> ToUpper(s[i])]

-----------------------------------------------------------------------------
(* errno values.                                                           *)

ENOENT == 2
EIO    == 5
ENOMEM == 12
ERANGE == 34

-----------------------------------------------------------------------------
(* Digest engine.                                                          *)

(* The digest is 32 bytes in the program; the model shortens it.           *)
SHA256_DIGEST_LENGTH == 2

(* Width of size_t in bits, and log2 of the page size.                     *)
SizeBits  == 4
PageShift == 2

RECURSIVE Pow2(_)
Pow2(n) == IF n = 0 THEN 1 ELSE 2 * Pow2(n - 1)

SIZE_MOD  == Pow2(SizeBits)
SSIZE_MAX == Pow2(SizeBits - 1) - 1

(* x & ~pgmask for a power-of-two page size.                               *)
AndNotMask(x, pgsize) == x - (x % pgsize)

RECURSIVE digest2string(_, _)
digest2string(digest, len) ==
    IF len = 0 THEN << >>
    ELSE LET b  == Head(digest)
             hn == b \div 16
             ln == b % 16
             hi == IF hn < 10 THEN Chr(Ord("0") + hn)
                   ELSE Chr(Ord("a") + hn - 10)
             lo == IF ln < 10 THEN Chr(Ord("0") + ln)
                   ELSE Chr(Ord("a") + ln - 10)
         IN  <<hi, lo>> \o digest2string(Tail(digest), len - 1)

(* strcmp made blind to letter case (strcasecmp).                          *)
RECURSIVE strcmp_nocase(_, _)
strcmp_nocase(a, b) ==
    IF a = << >> /\ b = << >> THEN 0
    ELSE IF a = << >> \/ b = << >> THEN 1
    ELSE IF ToUpper(Head(a)) # ToUpper(Head(b)) THEN 1
    ELSE strcmp_nocase(Tail(a), Tail(b))

(* strcmp: 0 when equal; the sign of a difference is not modelled.         *)
RECURSIVE strcmp(_, _)
strcmp(a, b) ==
    IF a = << >> /\ b = << >> THEN 0
    ELSE IF a = << >> \/ b = << >> THEN 1
    ELSE IF Head(a) # Head(b) THEN 1
    ELSE strcmp(Tail(a), Tail(b))

(* A file as the system calls see it: the errno open, fstat and mmap fail  *)
(* with (0: they succeed), its size, whether SHA256 returns NULL, and the  *)
(* digest SHA256 computes of its content.                                  *)
Digests == { [i \in 1..SHA256_DIGEST_LENGTH |-> b] : b \in {9, 171, 250} }
ZeroDigest == [i \in 1..SHA256_DIGEST_LENGTH |-> 0]

Files ==
    { f \in [ open_errno  : {0, ENOENT},
              fstat_errno : {0, EIO},
              st_size     : {0, 1, Pow2(PageShift), SSIZE_MAX - 1, SSIZE_MAX},
              mmap_errno  : {0, ENOMEM},
              sha_null    : BOOLEAN,
              digest      : Digests \cup {ZeroDigest} ] :
        \* what follows the first failing step is never looked at
        /\ f.open_errno # 0 =>
              /\ f.fstat_errno = 0 /\ f.st_size = 0
        /\ (f.open_errno # 0 \/ f.fstat_errno # 0 \/ f.st_size > SSIZE_MAX - 1) =>
              /\ f.mmap_errno = 0 /\ f.sha_null = FALSE
              /\ f.digest = ZeroDigest
        /\ f.fstat_errno # 0 => f.st_size = 0
        /\ f.mmap_errno # 0 =>
              /\ f.sha_null = FALSE
              /\ f.digest = ZeroDigest
        /\ f.sha_null => f.digest = ZeroDigest
        /\ f.digest = ZeroDigest =>
              \/ f.open_errno # 0 \/ f.fstat_errno # 0 \/ f.mmap_errno # 0
              \/ f.st_size > SSIZE_MAX - 1 \/ f.sha_null }

(* xbps_get_file_hash: the returned string (or NULL) and errno afterwards. *)
(* close() and munmap() succeed and leave errno alone.                     *)
xbps_get_file_hash(file, e) ==
    LET pgsize  == Pow2(PageShift)
        pgmask  == pgsize - 1
        mapsize == AndNotMask((file.st_size + pgmask) % SIZE_MOD, pgsize)
        need_guard == (file.st_size % pgsize) = 0
        maplen  == IF need_guard THEN (mapsize + pgsize) % SIZE_MOD ELSE mapsize
    IN  IF file.open_errno # 0 THEN [res |-> NULL, errno |-> file.open_errno]
        ELSE IF file.fstat_errno # 0 THEN [res |-> NULL, errno |-> file.fstat_errno]
        ELSE IF file.st_size > SSIZE_MAX - 1 THEN [res |-> NULL, errno |-> e]
        ELSE IF mapsize < file.st_size THEN [res |-> NULL, errno |-> e]
        ELSE IF file.mmap_errno # 0 THEN [res |-> NULL, errno |-> file.mmap_errno]
        ELSE IF file.sha_null THEN [res |-> NULL, errno |-> e]
        ELSE [res |-> Ptr(digest2string(file.digest, SHA256_DIGEST_LENGTH)),
              errno |-> e]

(* xbps_check_file_hash: the returned int and errno afterwards.            *)
xbps_check_file_hash(file, sha256, e) ==
    LET h == xbps_get_file_hash(file, e)   \* res = xbps_get_file_hash(file)
    IN  IF h.res = NULL THEN [rv |-> h.errno, errno |-> h.errno, hash |-> NULL]
        ELSE IF strcmp(sha256, Deref(h.res)) # 0
             THEN [rv |-> ERANGE, errno |-> h.errno, hash |-> h.res]
        ELSE [rv |-> 0, errno |-> h.errno, hash |-> h.res]

(* The expected strings a caller passes: digests of files, the same in     *)
(* upper case, a truncated digest, the empty string.                       *)
ExpectedStrings ==
    LET hex == { digest2string(d, SHA256_DIGEST_LENGTH) : d \in Digests }
    IN  hex \cup { UpperStr(s) : s \in hex }
            \cup { SubSeq(s, 1, Len(s) - 1) : s \in hex }
            \cup { << >> }

NoCall == [op |-> "none"]

GetFileHash ==
    \E f \in Files :
        \E r \in {xbps_get_file_hash(f, errno)} :
            /\ call' = [op |-> "get_file_hash", file |-> f, res |-> r.res]
            /\ errno' = r.errno
            /\ held' = IF r.res = NULL THEN NULL
                       ELSE Ptr([file |-> f, hash |-> Deref(r.res)])
            /\ UNCHANGED configVars

CheckFileHash ==
    \E f \in Files :
        \E s \in ExpectedStrings \cup { held[i].hash : i \in 1..Len(held) } :
            \E r \in {xbps_check_file_hash(f, s, errno)} :
                /\ call' = [op |-> "check_file_hash", file |-> f, sha256 |-> s,
                            hash |-> r.hash, rv |-> r.rv]
                /\ errno' = r.errno
                /\ UNCHANGED <<held, configVars>>

-----------------------------------------------------------------------------
(* Identifier grammar parser and pattern splitter.  A pointer into a       *)
(* string is the index of the character it points at.                      *)

MaxStrLen == 3

IdChars  == {"a", "-", "_", ":"}
PatChars == {"a", ">", "<", "="}

Strings(alphabet) ==
    UNION { [1..n -> alphabet] : n \in 0..MaxStrLen }

strlen(s) == Len(s)

(* strrchr taken for strchr: the first c in s.                             *)
strrchr_first(s, c) ==
    LET at == { i \in 1..Len(s) : s[i] = c }
    IN  IF at = {} THEN NULL
        ELSE Ptr(CHOOSE i \in at : \A j \in at : i <= j)

(* strrchr(s, c): pointer to the last c in s, or NULL.                     *)
strrchr(s, c) ==
    LET at == { i \in 1..Len(s) : s[i] = c }
    IN  IF at = {} THEN NULL
        ELSE Ptr(CHOOSE i \in at : \A j \in at : j <= i)

(* strpbrk stopping at the last accepted character instead of the first.   *)
strpbrk_last(s, accept) ==
    LET at == { i \in 1..Len(s) : s[i] \in accept }
    IN  IF at = {} THEN NULL
        ELSE Ptr(CHOOSE i \in at : \A j \in at : j <= i)

(* strpbrk(s, accept): pointer to the first character of s that is in      *)
(* accept, or NULL.                                                        *)
strpbrk(s, accept) ==
    LET at == { i \in 1..Len(s) : s[i] \in accept }
    IN  IF at = {} THEN NULL
        ELSE Ptr(CHOOSE i \in at : \A j \in at : i <= j)

(* The string a pointer into s points at.                                  *)
StrAt(s, i) == SubSeq(s, i, Len(s))

(* strlcpy(dst, src, size): dst receives at most size - 1 characters.      *)
strlcpy(src, size) ==
    IF size = 0 THEN << >>
    ELSE SubSeq(src, 1, IF Len(src) < size - 1 THEN Len(src) ELSE size - 1)

xbps_get_pkg_epoch(pkg) ==
    LET tmp == strrchr(pkg, ":")
    IN  IF tmp = NULL THEN NULL ELSE Ptr(StrAt(pkg, Deref(tmp) + 1))

xbps_get_pkg_version(pkg) ==
    LET tmp == strrchr(pkg, "-")
    IN  IF tmp = NULL THEN NULL ELSE Ptr(StrAt(pkg, Deref(tmp) + 1))

xbps_get_pkg_revision(pkg) ==
    LET tmp == strrchr(pkg, "_")
    IN  IF tmp = NULL THEN NULL ELSE Ptr(StrAt(pkg, Deref(tmp) + 1))

xbps_get_pkg_name(pkg) ==
    LET tmp == strrchr(pkg, "-")
    IN  IF tmp = NULL THEN NULL
        ELSE LET len == strlen(pkg) - strlen(StrAt(pkg, Deref(tmp))) + 1
             IN  Ptr(strlcpy(pkg, len))

xbps_get_pkgpattern_name(pkg) ==
    LET res == strpbrk(pkg, {">", "<", "="})
    IN  IF res = NULL THEN NULL
        ELSE LET len == strlen(pkg) - strlen(StrAt(pkg, Deref(res))) + 1
             IN  Ptr(strlcpy(pkg, len))

xbps_get_pkgpattern_version(pkg) ==
    LET res == strpbrk(pkg, {">", "<", "="})
    IN  IF res = NULL THEN NULL ELSE Ptr(StrAt(pkg, Deref(res)))

GetPkgEpoch ==
    \E pkg \in Strings(IdChars) :
        /\ call' = [op |-> "get_pkg_epoch", pkg |-> pkg, rv |-> xbps_get_pkg_epoch(pkg)]
        /\ UNCHANGED <<errno, held, configVars>>

GetPkgVersion ==
    \E pkg \in Strings(IdChars) :
        /\ call' = [op |-> "get_pkg_version", pkg |-> pkg, rv |-> xbps_get_pkg_version(pkg)]
        /\ UNCHANGED <<errno, held, configVars>>

GetPkgRevision ==
    \E pkg \in Strings(IdChars) :
        /\ call' = [op |-> "get_pkg_revision", pkg |-> pkg, rv |-> xbps_get_pkg_revision(pkg)]
        /\ UNCHANGED <<errno, held, configVars>>

GetPkgName ==
    \E pkg \in Strings(IdChars) :
        /\ call' = [op |-> "get_pkg_name", pkg |-> pkg, rv |-> xbps_get_pkg_name(pkg)]
        /\ UNCHANGED <<errno, held, configVars>>

GetPkgPatternName ==
    \E pkg \in Strings(PatChars) :
        /\ call' = [op |-> "get_pkgpattern_name", pkg |-> pkg, rv |-> xbps_get_pkgpattern_name(pkg)]
        /\ UNCHANGED <<errno, held, configVars>>

GetPkgPatternVersion ==
    \E pkg \in Strings(PatChars) :
        /\ call' = [op |-> "get_pkgpattern_version", pkg |-> pkg, rv |-> xbps_get_pkgpattern_version(pkg)]
        /\ UNCHANGED <<errno, held, configVars>>

-----------------------------------------------------------------------------
(* Installed-package check.  The registered-packages dictionary, the       *)
(* package-state reader and the version comparator are collaborators.      *)

XBPS_PKG_STATE_INSTALLED == "installed"

(* The installed records: pkgname, the state object (NULL: missing or not  *)
(* a known state) and the pkgver string (NULL: missing).                   *)
InstalledDb ==
    { [pkgname |-> <<"a">>, state |-> Ptr("installed"),
       pkgver |-> Ptr(<<"a", "-", "1">>)],
      [pkgname |-> <<"b">>, state |-> Ptr("unpacked"),
       pkgver |-> Ptr(<<"b", "-", "1">>)],
      [pkgname |-> <<"c">>, state |-> Ptr("installed"), pkgver |-> NULL],
      [pkgname |-> <<"d">>, state |-> NULL,
       pkgver |-> Ptr(<<"d", "-", "1">>)],
      [pkgname |-> <<"e">>, state |-> Ptr("config-files"),
       pkgver |-> Ptr(<<"e", "-", "1">>)],
      [pkgname |-> <<"f">>, state |-> Ptr("broken"), pkgver |-> NULL] }

(* xbps_find_pkg_dict_installed(pkgname, false): the record, or NULL with  *)
(* errno ENOENT when there is none; dberr # 0: the dictionary cannot be    *)
(* read and errno is dberr.                                                *)
xbps_find_pkg_dict_installed(pkgname, dberr) ==
    LET hit == { d \in InstalledDb : d.pkgname = pkgname }
    IN  IF dberr # 0 THEN [dict |-> NULL, errno |-> dberr]
        ELSE IF hit = {} THEN [dict |-> NULL, errno |-> ENOENT]
        ELSE [dict |-> Ptr(CHOOSE d \in hit : TRUE), errno |-> 0]

(* xbps_get_pkg_state_dictionary(dict, &state): 0 and the state, or an     *)
(* error number when the record holds no known state.                      *)
xbps_get_pkg_state_dictionary(dict) ==
    IF dict.state = NULL THEN [rv |-> 22, state |-> "0"]
    ELSE [rv |-> 0, state |-> Deref(dict.state)]

xbps_get_pkgver_from_dict(d) == d.pkgver

(* xbps_check_is_installed_pkg without the test of the package state.      *)
xbps_check_is_installed_pkg_nostate(pkg, e, dberr, verdict) ==
    LET pkgname == xbps_get_pkgpattern_name(pkg)
        none    == [queried |-> NULL, found |-> NULL, consulted |-> FALSE]
    IN  IF pkgname = NULL
        THEN [rv |-> -1, errno |-> e] @@ none
        ELSE
        LET look  == xbps_find_pkg_dict_installed(Deref(pkgname), dberr)
            asked == [queried |-> pkgname, found |-> look.dict,
                      consulted |-> FALSE]
        IN  IF look.dict = NULL
            THEN IF look.errno = ENOENT
                 THEN [rv |-> 0, errno |-> 0] @@ asked
                 ELSE [rv |-> -1, errno |-> look.errno] @@ asked
            ELSE
            LET dict == Deref(look.dict)
                st   == xbps_get_pkg_state_dictionary(dict)
                instpkgver == xbps_get_pkgver_from_dict(dict)
            IN  IF st.rv # 0 THEN [rv |-> -1, errno |-> e] @@ asked
                ELSE IF instpkgver = NULL
                     THEN [rv |-> -1, errno |-> e] @@ asked
                ELSE [rv |-> verdict, errno |-> e, queried |-> pkgname,
                      found |-> look.dict, consulted |-> TRUE]

(* xbps_check_is_installed_pkg(pkg).  dberr and verdict are what the       *)
(* dictionary lookup and xbps_pkgpattern_match answer if they are called.  *)
(* queried: the name the dictionary was asked for (NULL: not asked);       *)
(* consulted: whether xbps_pkgpattern_match was called.                    *)
xbps_check_is_installed_pkg(pkg, e, dberr, verdict) ==
    LET pkgname == xbps_get_pkgpattern_name(pkg)
        none    == [queried |-> NULL, found |-> NULL, consulted |-> FALSE]
    IN  IF pkgname = NULL
        THEN [rv |-> -1, errno |-> e] @@ none
        ELSE
        LET look  == xbps_find_pkg_dict_installed(Deref(pkgname), dberr)
            asked == [queried |-> pkgname, found |-> look.dict,
                      consulted |-> FALSE]
        IN  IF look.dict = NULL
            THEN IF look.errno = ENOENT
                 THEN [rv |-> 0, errno |-> 0] @@ asked
                 ELSE [rv |-> -1, errno |-> look.errno] @@ asked
            ELSE
            LET dict == Deref(look.dict)
                st   == xbps_get_pkg_state_dictionary(dict)
                instpkgver == xbps_get_pkgver_from_dict(dict)
            IN  IF st.rv # 0 THEN [rv |-> -1, errno |-> e] @@ asked
                ELSE IF st.state # XBPS_PKG_STATE_INSTALLED
                     THEN [rv |-> 0, errno |-> e] @@ asked
                ELSE IF instpkgver = NULL
                     THEN [rv |-> -1, errno |-> e] @@ asked
                ELSE [rv |-> verdict, errno |-> e, queried |-> pkgname,
                      found |-> look.dict, consulted |-> TRUE]

PkgNames    == { <<"a">>, <<"b">>, <<"c">>, <<"d">>, <<"e">>, <<"f">>, <<"x">>,
                 << >> }
Constraints == { << >>, <<">", "1">>, <<"<", "1">>, <<"=", "1">>,
                 <<">", "=", "1">> }
Patterns    == { n \o c : n \in PkgNames, c \in Constraints }

CheckIsInstalledPkg ==
    \E pkg \in Patterns, dberr \in {0, EIO}, verdict \in {-1, 0, 1} :
        \E r \in {xbps_check_is_installed_pkg(pkg, errno, dberr, verdict)} :
            /\ call' = [op |-> "check_is_installed_pkg", pkg |-> pkg,
                        dberr |-> IF r.queried = NULL THEN 0 ELSE dberr,
                        verdict |-> IF r.consulted THEN verdict ELSE 0,
                        rv |-> r.rv, queried |-> r.queried,
                        found |-> r.found, consulted |-> r.consulted]
            /\ errno' = r.errno
            /\ UNCHANGED <<held, configVars>>

-----------------------------------------------------------------------------
(* Process-wide configuration and the binary-package path resolver.        *)
(* cachedir is a pointer: NULL, the string literal XBPS_CACHE_PATH, the    *)
(* static buffer of xbps_set_cachedir (set_res) or the static buffer of    *)
(* xbps_get_cachedir (get_res).                                            *)

(* PATH_MAX is 4096 on the platforms of the program; the model shortens it.*)
PATH_MAX == 8

(* The fixed cache subpath; its text is set in a header and is immaterial  *)
(* here, only its length counts.                                           *)
XBPS_CACHE_PATH == <<"v", "c">>

Cfg == [rootdir |-> rootdir, cachedir |-> cachedir,
        set_res |-> set_res, get_res |-> get_res]

(* The string cachedir points at.                                          *)
CachedirString(c) ==
    CASE c.cachedir = "XBPS_CACHE_PATH" -> XBPS_CACHE_PATH
      [] c.cachedir = "set_res"         -> c.set_res
      [] c.cachedir = "get_res"         -> c.get_res

(* snprintf(buf, size, "%s/%s", a, b): the value returned and the string   *)
(* left in buf (at most size - 1 characters).                              *)
snprintf(size, a, b) ==
    LET full == a \o <<"/">> \o b
    IN  [r   |-> Len(full),
         buf |-> IF size = 0 THEN << >>
                 ELSE SubSeq(full, 1,
                             IF Len(full) < size - 1 THEN Len(full) ELSE size - 1)]

(* xbps_set_rootdir that keeps a root directory already set.               *)
xbps_set_rootdir_once(dir, c) ==
    IF c.rootdir = NULL THEN [c EXCEPT !.rootdir = Ptr(dir)] ELSE c

xbps_set_rootdir(dir, c) == [c EXCEPT !.rootdir = Ptr(dir)]

(* xbps_get_rootdir: the string returned and the configuration afterwards. *)
xbps_get_rootdir(c) ==
    LET c1 == IF c.rootdir = NULL THEN [c EXCEPT !.rootdir = Ptr(<<"/">>)] ELSE c
    IN  [rv |-> Deref(c1.rootdir), cfg |-> c1]

xbps_set_cachedir(dir, c) ==
    LET root == xbps_get_rootdir(c)
        p    == snprintf(PATH_MAX - 1, root.rv, dir)
        c1   == [root.cfg EXCEPT !.set_res = p.buf]
    IN  IF p.r >= PATH_MAX - 1
        THEN [c1 EXCEPT !.cachedir = "XBPS_CACHE_PATH"]
        ELSE [c1 EXCEPT !.cachedir = "set_res"]

(* xbps_get_cachedir that formats the default but never stores it.         *)
xbps_get_cachedir_nostore(c) ==
    IF c.cachedir = "NULL"
    THEN LET root == IF c.rootdir = NULL THEN <<"/">> ELSE Deref(c.rootdir)
             c0   == IF c.rootdir = NULL THEN [c EXCEPT !.rootdir = Ptr(<<"/">>)]
                     ELSE c
             full == root \o <<"/">> \o XBPS_CACHE_PATH
             c1   == [c0 EXCEPT !.get_res =
                         SubSeq(full, 1, IF Len(full) < PATH_MAX - 2
                                         THEN Len(full) ELSE PATH_MAX - 2)]
         IN  IF Len(full) >= PATH_MAX - 1
             THEN [rv |-> NULL, cfg |-> c1]
             ELSE [rv |-> Ptr(c1.get_res), cfg |-> c1]
    ELSE [rv |-> Ptr(CASE c.cachedir = "XBPS_CACHE_PATH" -> XBPS_CACHE_PATH
                       [] c.cachedir = "set_res" -> c.set_res
                       [] c.cachedir = "get_res" -> c.get_res),
          cfg |-> c]

(* xbps_get_cachedir: the string returned (or NULL) and the configuration  *)
(* afterwards.                                                             *)
xbps_get_cachedir(c) ==
    IF c.cachedir = "NULL"
    THEN LET root == xbps_get_rootdir(c)
             p    == snprintf(PATH_MAX - 1, root.rv, XBPS_CACHE_PATH)
             c1   == [root.cfg EXCEPT !.get_res = p.buf]
         IN  IF p.r >= PATH_MAX - 1
             THEN [rv |-> NULL, cfg |-> c1]
             ELSE [rv |-> Ptr(p.buf), cfg |-> [c1 EXCEPT !.cachedir = "get_res"]]
    ELSE [rv |-> Ptr(CachedirString(c)), cfg |-> c]

(* strncmp(a, b, n) == 0                                                   *)
strncmp_eq(a, b, n) ==
    LET m == IF Len(a) < n THEN Len(a) ELSE n
        k == IF Len(b) < n THEN Len(b) ELSE n
    IN  SubSeq(a, 1, m) = SubSeq(b, 1, k)

(* xbps_check_is_repo_string_remote that forgets the ftp scheme.           *)
xbps_check_is_repo_string_remote_noftp(uri) ==
    \/ strncmp_eq(uri, <<"h", "t", "t", "p", "s", ":", "/", "/">>, 8)
    \/ strncmp_eq(uri, <<"h", "t", "t", "p", ":", "/", "/">>, 7)

xbps_check_is_repo_string_remote(uri) ==
    \/ strncmp_eq(uri, <<"h", "t", "t", "p", "s", ":", "/", "/">>, 8)
    \/ strncmp_eq(uri, <<"h", "t", "t", "p", ":", "/", "/">>, 7)
    \/ strncmp_eq(uri, <<"f", "t", "p", ":", "/", "/">>, 6)

(* What a read of a pointer that was never initialised can give: a wild    *)
(* address (the formatting faults), the null pointer (the C library        *)
(* prints "(null)") or the address of some other string.                   *)
Uninitialised ==
    { [fault |-> TRUE,  str |-> << >>],
      [fault |-> FALSE, str |-> <<"(", "n", "u", "l", "l", ")">>],
      [fault |-> FALSE, str |-> <<"z">>] }

(* prop_dictionary_get_cstring_nocopy(d, key, &out): out is written only   *)
(* when the key is there; the result is not looked at.                     *)
prop_dictionary_get_cstring_nocopy(field, uninit) ==
    IF field = NULL THEN uninit ELSE [fault |-> FALSE, str |-> Deref(field)]

(* xbps_get_binpkg_local_path(pkgd, repoloc).  ufilen and uarch are what   *)
(* the uninitialised filen and arch hold.  crashed: the process faulted    *)
(* while formatting.                                                       *)
xbps_get_binpkg_local_path(pkgd, repoloc, c, ufilen, uarch) ==
    LET filen == prop_dictionary_get_cstring_nocopy(pkgd.filename, ufilen)
        arch  == prop_dictionary_get_cstring_nocopy(pkgd.architecture, uarch)
        cdir  == xbps_get_cachedir(c)
    IN  IF cdir.rv = NULL
        THEN [rv |-> NULL, crashed |-> FALSE, cfg |-> cdir.cfg]
        ELSE IF ~xbps_check_is_repo_string_remote(repoloc)
        THEN IF arch.fault \/ filen.fault
             THEN [rv |-> NULL, crashed |-> TRUE, cfg |-> cdir.cfg]
             ELSE [rv |-> Ptr(repoloc \o <<"/">> \o arch.str \o <<"/">> \o filen.str),
                   crashed |-> FALSE, cfg |-> cdir.cfg]
        ELSE IF filen.fault
             THEN [rv |-> NULL, crashed |-> TRUE, cfg |-> cdir.cfg]
             ELSE [rv |-> Ptr(Deref(cdir.rv) \o <<"/">> \o filen.str),
                   crashed |-> FALSE, cfg |-> cdir.cfg]

(* Arguments of the callers.                                               *)
LongName == [i \in 1..PATH_MAX |-> "r"]
RootDirs  == { <<"/">>, <<"/", "r">>, <<"/">> \o LongName }
CacheArgs == { <<"c">>, LongName }
RepoLocs ==
    { <<"h", "t", "t", "p", "s", ":", "/", "/", "r">>,
      <<"h", "t", "t", "p", ":", "/", "/", "r">>,
      <<"f", "t", "p", ":", "/", "/", "r">>,
      <<"h", "t", "t", "p", ":", "/", "r">>,
      <<"f", "t", "p">>,
      <<"/", "r">> }
PkgDicts ==
    [ filename     : {NULL, Ptr(<<"f">>)},
      architecture : {NULL, Ptr(<<"x">>)} ]

SetCfg(c) ==
    /\ rootdir' = c.rootdir
    /\ cachedir' = c.cachedir
    /\ set_res' = c.set_res
    /\ get_res' = c.get_res

(* History of the reads of the cache directory: the root directory in      *)
(* effect at the first read made while no cache directory was set, and at  *)
(* the first such read that returned a value.                              *)
NoteCacheRead(r) ==
    /\ firstRead' = IF lastCacheSet = NULL /\ firstRead = NULL
                    THEN r.cfg.rootdir ELSE firstRead
    /\ lazyCache' = IF lastCacheSet = NULL /\ lazyCache = NULL /\ r.rv # NULL
                    THEN r.cfg.rootdir ELSE lazyCache

SetRootdir ==
    \E dir \in RootDirs :
        /\ SetCfg(xbps_set_rootdir(dir, Cfg))
        /\ call' = [op |-> "set_rootdir", dir |-> dir]
        /\ lastRootArg' = Ptr(dir)
        /\ UNCHANGED <<errno, held, lastCacheSet, firstRead, lazyCache>>

GetRootdir ==
    \E r \in {xbps_get_rootdir(Cfg)} :
        /\ SetCfg(r.cfg)
        /\ call' = [op |-> "get_rootdir", rv |-> r.rv]
        /\ UNCHANGED <<errno, held, lastRootArg, lastCacheSet, firstRead, lazyCache>>

SetCachedir ==
    \E dir \in CacheArgs :
        /\ SetCfg(xbps_set_cachedir(dir, Cfg))
        /\ call' = [op |-> "set_cachedir", dir |-> dir]
        /\ lastCacheSet' = Ptr([root |-> xbps_get_rootdir(Cfg).rv, arg |-> dir])
        /\ UNCHANGED <<errno, held, lastRootArg, firstRead, lazyCache>>

GetCachedir ==
    \E r \in {xbps_get_cachedir(Cfg)} :
        /\ SetCfg(r.cfg)
        /\ call' = [op |-> "get_cachedir", rv |-> r.rv]
        /\ NoteCacheRead(r)
        /\ UNCHANGED <<errno, held, lastRootArg, lastCacheSet>>

GetBinpkgLocalPath ==
    \E pkgd \in PkgDicts, repoloc \in RepoLocs :
        \E ufilen \in Uninitialised, uarch \in Uninitialised :
            \E r \in {xbps_get_binpkg_local_path(pkgd, repoloc, Cfg, ufilen, uarch)} :
                /\ SetCfg(r.cfg)
                /\ call' = [op |-> "get_binpkg_local_path", pkgd |-> pkgd,
                            repoloc |-> repoloc, rv |-> r.rv,
                            crashed |-> r.crashed]
                /\ NoteCacheRead(xbps_get_cachedir(Cfg))
                /\ UNCHANGED <<errno, held, lastRootArg, lastCacheSet>>

Init ==
    /\ errno = 0
    /\ call = NoCall
    /\ held = NULL
    /\ rootdir = NULL
    /\ cachedir = "NULL"
    /\ set_res = << >>
    /\ get_res = << >>
    /\ lastRootArg = NULL
    /\ lastCacheSet = NULL
    /\ firstRead = NULL
    /\ lazyCache = NULL

NextDigest == GetFileHash \/ CheckFileHash

SpecDigest == Init /\ [][NextDigest]_vars

NextParse ==
    \/ GetPkgEpoch
    \/ GetPkgVersion
    \/ GetPkgRevision
    \/ GetPkgName
    \/ GetPkgPatternName
    \/ GetPkgPatternVersion

SpecParse == Init /\ [][NextParse]_vars

NextInstalled == CheckIsInstalledPkg

SpecInstalled == Init /\ [][NextInstalled]_vars

NextConfig ==
    \/ SetRootdir
    \/ GetRootdir
    \/ SetCachedir
    \/ GetCachedir
    \/ GetBinpkgLocalPath

SpecConfig == Init /\ [][NextConfig]_vars

-----------------------------------------------------------------------------
(* Properties.                                                             *)

HasChar(s, chars) == \E i \in 1..Len(s) : s[i] \in chars

HasPrefix(s, p) == Len(s) >= Len(p) /\ \A i \in 1..Len(p) : s[i] = p[i]

(* C1: whenever xbps_get_file_hash returns no digest, whatever errno was   *)
(* before, xbps_check_file_hash returns an error and never 0.              *)
C1_VerifyPropagatesFailure ==
    (call.op = "check_file_hash" /\ call.hash = NULL) => call.rv # 0

(* C2: when the digest of the file is computed, xbps_check_file_hash       *)
(* returns 0 exactly when the expected string equals the digest string     *)
(* character for character and ERANGE (Mismatch) otherwise; checking a     *)
(* file against the string xbps_get_file_hash returned for it gives 0, and *)
(* an expected string that differs only in letter case gives ERANGE.       *)
C2_VerifyOkIffEqual ==
    (call.op = "check_file_hash" /\ call.hash # NULL) =>
        /\ call.rv = 0 <=> call.sha256 = Deref(call.hash)
        /\ call.rv # 0 => call.rv = ERANGE
        /\ \A i \in 1..Len(held) :
              (held[i].file = call.file /\ held[i].hash = call.sha256)
                  => call.rv = 0
        /\ ( /\ call.sha256 # Deref(call.hash)
             /\ UpperStr(call.sha256) = UpperStr(Deref(call.hash)) )
               => call.rv = ERANGE

C2_CaseDiffers_W ==
    /\ call.op = "check_file_hash"
    /\ call.hash # NULL
    /\ call.sha256 # Deref(call.hash)
    /\ UpperStr(call.sha256) = UpperStr(Deref(call.hash))
    /\ call.rv = ERANGE

(* C3: xbps_check_is_installed_pkg on a string without '>', '<', '='       *)
(* asks the dictionary for the whole string as the name and returns 0      *)
(* (not installed) when there is no such record, not an error.             *)
C3_BareNameNotInstalled ==
    ( /\ call.op = "check_is_installed_pkg"
      /\ ~HasChar(call.pkg, {">", "<", "="})
      /\ \A d \in InstalledDb : d.pkgname # call.pkg )
        => /\ call.rv = 0
           /\ call.queried = Ptr(call.pkg)

(* C4: for a record found by name, xbps_check_is_installed_pkg returns 0   *)
(* whenever the record's state is not the installed state, and does so     *)
(* without calling the version comparator; the comparator is called only   *)
(* for an installed record, and its verdict is then returned unchanged.    *)
C4_StateGate ==
    (call.op = "check_is_installed_pkg" /\ call.found # NULL) =>
        LET d == Deref(call.found)
        IN  /\ (d.state # NULL /\ Deref(d.state) # XBPS_PKG_STATE_INSTALLED)
                  => (call.rv = 0 /\ ~call.consulted)
            /\ call.consulted =>
                  /\ d.state = Ptr(XBPS_PKG_STATE_INSTALLED)
                  /\ call.rv = call.verdict
            /\ (d.state = Ptr(XBPS_PKG_STATE_INSTALLED) /\ d.pkgver # NULL)
                  => call.consulted

C4_NotFullyInstalled_W ==
    /\ call.op = "check_is_installed_pkg"
    /\ call.found # NULL
    /\ Deref(call.found).state = Ptr("unpacked")
    /\ call.pkg = Deref(call.found).pkgname \o <<"=", "1">>
    /\ call.rv = 0
    /\ ~call.consulted

(* C5: xbps_get_binpkg_local_path fails and returns no path whenever the   *)
(* package record lacks filename or architecture, for local and remote     *)
(* repository locations alike.                                             *)
C5_MissingFieldFails ==
    ( /\ call.op = "get_binpkg_local_path"
      /\ (call.pkgd.filename = NULL \/ call.pkgd.architecture = NULL) )
        => (call.rv = NULL /\ ~call.crashed)

(* C6: for a record with filename and architecture,                        *)
(* xbps_get_binpkg_local_path returns repoloc/architecture/filename when   *)
(* repoloc starts with none of "https://", "http://", "ftp://", and        *)
(* cachedir/filename otherwise, cachedir being the configured cache        *)
(* directory; it returns NULL exactly when the cache directory cannot be   *)
(* resolved (none was stored and the default does not fit the buffer).     *)
C6_ResolvedPath ==
    ( /\ call.op = "get_binpkg_local_path"
      /\ call.pkgd.filename # NULL
      /\ call.pkgd.architecture # NULL ) =>
        LET filen  == Deref(call.pkgd.filename)
            arch   == Deref(call.pkgd.architecture)
            remote == \/ HasPrefix(call.repoloc, <<"h", "t", "t", "p", "s", ":", "/", "/">>)
                      \/ HasPrefix(call.repoloc, <<"h", "t", "t", "p", ":", "/", "/">>)
                      \/ HasPrefix(call.repoloc, <<"f", "t", "p", ":", "/", "/">>)
        IN  /\ ~call.crashed
            /\ call.rv = NULL <=> cachedir = "NULL"
            /\ cachedir = "NULL" =>
                  Len(Deref(rootdir)) + 1 + Len(XBPS_CACHE_PATH) >= PATH_MAX - 1
            /\ call.rv # NULL =>
                  call.rv = Ptr(IF remote
                                THEN CachedirString(Cfg) \o <<"/">> \o filen
                                ELSE call.repoloc \o <<"/">> \o arch \o <<"/">> \o filen)

C6_RemoteFtp_W ==
    /\ call.op = "get_binpkg_local_path"
    /\ call.pkgd.filename # NULL
    /\ call.pkgd.architecture # NULL
    /\ HasPrefix(call.repoloc, <<"f", "t", "p", ":", "/", "/">>)
    /\ lastCacheSet # NULL
    /\ cachedir = "set_res"
    /\ call.rv = Ptr(set_res \o <<"/">> \o Deref(call.pkgd.filename))

(* rv is the suffix of s after the last c, and NULL exactly when s has no  *)
(* c.                                                                      *)
SuffixAfterLast(s, c, rv) ==
    IF \A i \in 1..Len(s) : s[i] # c THEN rv = NULL
    ELSE \E i \in 1..Len(s) :
            /\ s[i] = c
            /\ \A j \in (i + 1)..Len(s) : s[j] # c
            /\ rv = Ptr(SubSeq(s, i + 1, Len(s)))

(* C7: xbps_get_pkg_version, xbps_get_pkg_revision and xbps_get_pkg_epoch  *)
(* return the suffix after the last '-', '_' and ':', and NULL exactly     *)
(* when the delimiter does not occur; xbps_get_pkg_name returns NULL       *)
(* exactly when xbps_get_pkg_version does, and otherwise name, "-" and     *)
(* version concatenate to the input and the version holds no '-'.          *)
C7_IdentifierParsers ==
    /\ call.op = "get_pkg_version"  => SuffixAfterLast(call.pkg, "-", call.rv)
    /\ call.op = "get_pkg_revision" => SuffixAfterLast(call.pkg, "_", call.rv)
    /\ call.op = "get_pkg_epoch"    => SuffixAfterLast(call.pkg, ":", call.rv)
    /\ call.op = "get_pkg_name" =>
          LET v == xbps_get_pkg_version(call.pkg)
          IN  /\ call.rv = NULL <=> v = NULL
              /\ call.rv # NULL =>
                    /\ Deref(call.rv) \o <<"-">> \o Deref(v) = call.pkg
                    /\ ~HasChar(Deref(v), {"-"})

C7_TwoDashes_W ==
    /\ call.op = "get_pkg_name"
    /\ call.pkg = <<"a", "-", "-">>
    /\ call.rv = Ptr(<<"a", "-">>)

(* C8: on a pattern with none of '>', '<', '=' xbps_get_pkgpattern_name    *)
(* and xbps_get_pkgpattern_version return NULL; otherwise the name is the  *)
(* prefix before the first such character, the constraint starts at that   *)
(* character and runs to the end, and name and constraint concatenate to   *)
(* the pattern.                                                            *)
C8_PatternSplit ==
    LET ops  == {">", "<", "="}
        p    == call.pkg
        none == \A i \in 1..Len(p) : p[i] \notin ops
        first(i) == p[i] \in ops /\ \A j \in 1..(i - 1) : p[j] \notin ops
    IN  /\ call.op = "get_pkgpattern_name" =>
              IF none THEN call.rv = NULL
              ELSE /\ \E i \in 1..Len(p) :
                         first(i) /\ call.rv = Ptr(SubSeq(p, 1, i - 1))
                   /\ ~HasChar(Deref(call.rv), ops)
                   /\ Deref(call.rv) \o Deref(xbps_get_pkgpattern_version(p)) = p
        /\ call.op = "get_pkgpattern_version" =>
              IF none THEN call.rv = NULL
              ELSE /\ \E i \in 1..Len(p) :
                         first(i) /\ call.rv = Ptr(SubSeq(p, i, Len(p)))
                   /\ Head(Deref(call.rv)) \in ops

C8_TwoOperators_W ==
    /\ call.op = "get_pkgpattern_name"
    /\ call.pkg = <<"a", ">", "=">>
    /\ call.rv = Ptr(<<"a">>)

(* What xbps_set_cachedir establishes from the root directory in effect    *)
(* and its argument, as its claim words it: root + "/" + arg.              *)
Joined(w) == w.root \o <<"/">> \o w.arg

(* C9 as stated: xbps_get_rootdir returns the argument of the most recent  *)
(* xbps_set_rootdir, and xbps_get_cachedir returns rootdir + "/" + arg of  *)
(* the most recent xbps_set_cachedir.                                      *)
C9_LastWriteWins_AsStated ==
    /\ (call.op = "get_rootdir" /\ lastRootArg # NULL)
          => call.rv = Deref(lastRootArg)
    /\ (call.op = "get_cachedir" /\ lastCacheSet # NULL)
          => call.rv = Ptr(Joined(Deref(lastCacheSet)))

(* C9 amended: as stated, except that when rootdir + "/" + arg is longer   *)
(* than PATH_MAX - 2 characters the most recent xbps_set_cachedir          *)
(* establishes the fixed default XBPS_CACHE_PATH, and that is what         *)
(* xbps_get_cachedir returns.                                              *)
C9_LastWriteWins ==
    /\ (call.op = "get_rootdir" /\ lastRootArg # NULL)
          => call.rv = Deref(lastRootArg)
    /\ (call.op = "get_cachedir" /\ lastCacheSet # NULL)
          => call.rv = Ptr(IF Len(Joined(Deref(lastCacheSet))) <= PATH_MAX - 2
                           THEN Joined(Deref(lastCacheSet))
                           ELSE XBPS_CACHE_PATH)

C9_Overwritten_W ==
    /\ call.op = "get_cachedir"
    /\ lastCacheSet # NULL
    /\ lazyCache # NULL
    /\ lastRootArg # NULL
    /\ Deref(lastRootArg) # Deref(lastCacheSet).root
    /\ call.rv = Ptr(Joined(Deref(lastCacheSet)))

(* C10 as stated: a read of rootdir never set returns "/"; a read of       *)
(* cachedir never set returns rootdir + "/" + XBPS_CACHE_PATH with the     *)
(* rootdir in effect at the first such read, at that read and at every     *)
(* later one until xbps_set_cachedir is called.                            *)
C10_LazyDefaults_AsStated ==
    /\ (call.op = "get_rootdir" /\ lastRootArg = NULL) => call.rv = <<"/">>
    /\ (call.op = "get_cachedir" /\ lastCacheSet = NULL)
          => call.rv = Ptr(Deref(firstRead) \o <<"/">> \o XBPS_CACHE_PATH)

(* C10 amended: as stated when the default fits; a read whose default      *)
(* rootdir + "/" + XBPS_CACHE_PATH is longer than PATH_MAX - 2 characters  *)
(* returns NULL and stores nothing, so the default that later reads keep   *)
(* returning is that of the first read that succeeded.                     *)
C10_LazyDefaults ==
    /\ (call.op = "get_rootdir" /\ lastRootArg = NULL) => call.rv = <<"/">>
    /\ (call.op = "get_cachedir" /\ lastCacheSet = NULL) =>
          IF lazyCache # NULL
          THEN /\ call.rv = Ptr(Deref(lazyCache) \o <<"/">> \o XBPS_CACHE_PATH)
               /\ Len(Deref(call.rv)) <= PATH_MAX - 2
          ELSE /\ call.rv = NULL
               /\ Len(Deref(rootdir) \o <<"/">> \o XBPS_CACHE_PATH) > PATH_MAX - 2

C10_DefaultKept_W ==
    /\ call.op = "get_cachedir"
    /\ lastCacheSet = NULL
    /\ lazyCache # NULL
    /\ rootdir # lazyCache
    /\ call.rv = Ptr(Deref(lazyCache) \o <<"/">> \o XBPS_CACHE_PATH)

====
